---- MODULE Spec2Model ----
(***************************************************************************)
(* A model of app.py, the Streamlit "Gemini 1.5 Task Assistant".           *)
(*                                                                         *)
(* Text is a sequence of one-character strings, so that the string         *)
(* operations of the code (split, strip, replace, startswith, re.sub,     *)
(* re.findall) are computed character by character as Python computes     *)
(* them.                                                                   *)
(*                                                                         *)
(* Three specifications share the module:                                  *)
(*   Spec      the script runs of the app (startup, widgets, the           *)
(*             "Get Response" handler and generate_ai_response);          *)
(*   SpecPdf   create_pdf applied to bounded Markdown bodies;              *)
(*   SpecNorm  the class-attribute substitution of create_pdf applied      *)
(*             once and again to bounded HTML strings.                     *)
(***************************************************************************)
EXTENDS Integers, Sequences, FiniteSets, TLC

VARIABLES
    \* ---- the app (Spec)
    api_key,         \* os.getenv("GEMINI_API_KEY"): "absent" or "present"
    history,         \* chat.history, the transcript of the ChatSession
    selected_task,   \* the selectbox's value
    task_details,    \* the text area's value
    pressed,         \* st.button("Get Response") returned True in this script run
    pc,              \* "idle": the script run has ended; "streaming": inside the for loop
    prompt,          \* the prompt composed in this script run, if any
    send_calls,      \* chat.send_message invocations of this script run
    sent,            \* what the completion of this run has delivered so far, in order
    model_response,  \* the accumulator of generate_ai_response
    writes,          \* the texts handed to response_container.write, in order
    response,        \* what generate_ai_response returned
    banners,         \* the banners shown in this script run, in order
    pdf_calls,       \* the (title, text) arguments of create_pdf in this run
    download,        \* a download button is offered in this run
    \* ---- create_pdf (SpecPdf)
    pdf_title, pdf_body, pygments, pdf_pc, pdf_html, story,
    \* ---- the normalizer (SpecNorm)
    norm_x, norm_once, norm_twice, norm_pc

appVars == <<api_key, history, selected_task, task_details, pressed, pc, prompt,
             send_calls, sent, model_response, writes, response,
             banners, pdf_calls, download>>
pdfVars == <<pdf_title, pdf_body, pygments, pdf_pc, pdf_html, story>>
normVars == <<norm_x, norm_once, norm_twice, norm_pc>>
vars == <<appVars, pdfVars, normVars>>

(***************************************************************************)
(* Bounds                                                                  *)
(***************************************************************************)
MaxChunks == 3
MaxBlocks == 3
MaxTokens == 5

(***************************************************************************)
(* Python's str operations on sequences of characters                      *)
(***************************************************************************)
\* s[i:] starts with pat (i is 1-based)
StartsAt(s, i, pat) ==
    /\ i + Len(pat) - 1 <= Len(s)
    /\ SubSeq(s, i, i + Len(pat) - 1) = pat

\* s.startswith(pat)
StartsWith(s, pat) == StartsAt(s, 1, pat)

\* the least element of a non-empty set of integers
Least(S) == CHOOSE i \in S : \A j \in S : i <= j

\* s.find(pat, from): the least index >= from where pat occurs, 0 when none
Find(s, pat, from) ==
    LET hits == {i \in from..(Len(s) - Len(pat) + 1) : StartsAt(s, i, pat)}
    IN IF hits = {} THEN 0 ELSE Least(hits)

\* s.split(sep): always at least one part
RECURSIVE Split(_, _)
Split(s, sep) ==
    LET k == Find(s, sep, 1) IN
    IF k = 0 THEN <<s>>
    ELSE <<SubSeq(s, 1, k - 1)>> \o Split(SubSeq(s, k + Len(sep), Len(s)), sep)

\* s.replace(old, new)
RECURSIVE Replace(_, _, _)
Replace(s, old, new) ==
    LET k == Find(s, old, 1) IN
    IF k = 0 THEN s
    ELSE SubSeq(s, 1, k - 1) \o new \o Replace(SubSeq(s, k + Len(old), Len(s)), old, new)

Whitespace == {" ", "\n", "\t"}

RECURSIVE LStrip(_)
LStrip(s) ==
    IF s # <<>> /\ Head(s) \in Whitespace THEN LStrip(Tail(s)) ELSE s

RECURSIVE RStrip(_)
RStrip(s) ==
    IF s # <<>> /\ s[Len(s)] \in Whitespace THEN RStrip(SubSeq(s, 1, Len(s) - 1)) ELSE s

\* s.strip()
Strip(s) == RStrip(LStrip(s))

RECURSIVE Flatten(_)
Flatten(ss) == IF ss = <<>> THEN <<>> ELSE Head(ss) \o Flatten(Tail(ss))

\* all sequences over S of length at most n
SeqsUpTo(S, n) == UNION {[1..k -> S] : k \in 0..n}

(***************************************************************************)
(* The class-attribute substitution of create_pdf:                         *)
(*   re.sub(r'<(div|span) class="[^"]+">', r"<\1>", html)                  *)
(***************************************************************************)
QUOTE == "\""
\* the backtick character (a TLA+ string cannot hold it)
BT == "BACKTICK"
DIV == <<"d", "i", "v">>
SPAN == <<"s", "p", "a", "n">>
CLASS_EQ == <<" ", "c", "l", "a", "s", "s", "=", QUOTE>>

\* the opener '<div class="' or '<span class="' of the pattern
Opener(tag) == <<"<">> \o tag \o CLASS_EQ

\* the tag (div or span) of the opener at s[i:], <<>> when there is none
TagAt(s, i) ==
    IF StartsAt(s, i, Opener(DIV)) THEN DIV
    ELSE IF StartsAt(s, i, Opener(SPAN)) THEN SPAN
    ELSE <<>>

\* The index of the last character of the pattern's match starting at s[i], 0 when
\* the pattern does not match there. [^"]+ runs to the next quotation mark and
\* cannot give a character back (the next pattern character is that mark), so the
\* match, if any, is unique: a non-empty value, then the mark, then '>'.
MatchEnd(s, i) ==
    LET tag == TagAt(s, i)
        v == i + Len(Opener(tag))
        q == Find(s, <<QUOTE>>, v)
    IN IF tag = <<>> THEN 0
       ELSE IF q > v /\ q + 1 <= Len(s) /\ s[q + 1] = ">" THEN q + 1
       ELSE 0

\* re.sub from position i: leftmost matches, not overlapping, each replaced by
\* <tag>; the text between the matches is copied
RECURSIVE ReSubFrom(_, _)
ReSubFrom(s, i) ==
    LET starts == {j \in i..Len(s) : MatchEnd(s, j) > 0} IN
    IF starts = {} THEN SubSeq(s, i, Len(s))
    ELSE LET m == Least(starts) IN
         SubSeq(s, i, m - 1) \o <<"<">> \o TagAt(s, m) \o <<">">>
         \o ReSubFrom(s, MatchEnd(s, m) + 1)

normalize(html) == ReSubFrom(html, 1)

AppIdle ==
    /\ api_key = "present" /\ history = <<>> /\ selected_task = "" /\ task_details = ""
    /\ pressed = FALSE /\ pc = "off" /\ prompt = <<>> /\ send_calls = 0 /\ sent = <<>>
    /\ model_response = <<>> /\ writes = <<>>
    /\ response = <<>> /\ banners = <<>> /\ pdf_calls = <<>> /\ download = FALSE

PdfIdle ==
    /\ pdf_title = <<>> /\ pdf_body = <<>> /\ pygments = FALSE /\ pdf_pc = "off"
    /\ pdf_html = <<>> /\ story = <<>>

NormIdle ==
    /\ norm_x = <<>> /\ norm_once = <<>> /\ norm_twice = <<>> /\ norm_pc = "off"

(***************************************************************************)
(* Literal strings of create_pdf                                           *)
(***************************************************************************)
\* [3 backticks]python
FENCE_PY ==
    <<BT, BT, BT, "p", "y", "t", "h", "o", "n">>

\* [3 backticks]
FENCE ==
    <<BT, BT, BT>>

\* <p>
P_OPEN ==
    <<"<", "p", ">">>

\* </p>
P_CLOSE ==
    <<"<", "/", "p", ">">>

\* <strong>
STRONG_OPEN ==
    <<"<", "s", "t", "r", "o", "n", "g", ">">>

\* </strong>
STRONG_CLOSE ==
    <<"<", "/", "s", "t", "r", "o", "n", "g", ">">>

\* <b>
B_OPEN ==
    <<"<", "b", ">">>

\* </b>
B_CLOSE ==
    <<"<", "/", "b", ">">>

\* <em>
EM_OPEN ==
    <<"<", "e", "m", ">">>

\* </em>
EM_CLOSE ==
    <<"<", "/", "e", "m", ">">>

\* <i>
I_OPEN ==
    <<"<", "i", ">">>

\* </i>
I_CLOSE ==
    <<"<", "/", "i", ">">>

(***************************************************************************)
(* Markdown(extensions=['fenced_code', 'codehilite']).convert on bodies    *)
(* made of blank-line separated blocks. Each block is one of the Markdown  *)
(* sources below; the HTML of each is what Python-Markdown produces for it *)
(* (codehilite's output depends on whether Pygments is installed).         *)
(***************************************************************************)
\* a
MdPlain ==
    <<"a">>

\* **b** *c*
MdBold ==
    <<"*", "*", "b", "*", "*", " ", "*", "c", "*">>

\* x [3 backticks]python y
MdInlineFence ==
    <<"x", " ", BT, BT, BT, "p", "y", "t", "h", "o", "n", " ", "y">>

\* [3 backticks]python\nprint(1)\n[3 backticks]
MdPyFence ==
    <<BT, BT, BT, "p", "y", "t", "h", "o", "n", "\n", "p", "r", "i", "n", "t", "(", "1",
    ")", "\n", BT, BT, BT>>

\* <p>a</p>
HtmlPlain ==
    <<"<", "p", ">", "a", "<", "/", "p", ">">>

\* <p><strong>b</strong> <em>c</em></p>
HtmlBold ==
    <<"<", "p", ">", "<", "s", "t", "r", "o", "n", "g", ">", "b", "<", "/", "s", "t", "r",
    "o", "n", "g", ">", " ", "<", "e", "m", ">", "c", "<", "/", "e", "m", ">", "<", "/",
    "p", ">">>

\* <p>x [3 backticks]python y</p>
HtmlInlineFence ==
    <<"<", "p", ">", "x", " ", BT, BT, BT, "p", "y", "t", "h", "o", "n", " ", "y", "<",
    "/", "p", ">">>

\* <div class="codehilite"><pre><span></span><code><span class="nb">print</span><span class="p">(</span><span class="mi">1</span><span class="p">)</span>\n</code></pre></div>
HtmlPyFencePygments ==
    <<"<", "d", "i", "v", " ", "c", "l", "a", "s", "s", "=", QUOTE, "c", "o", "d", "e", "h",
    "i", "l", "i", "t", "e", QUOTE, ">", "<", "p", "r", "e", ">", "<", "s", "p", "a", "n",
    ">", "<", "/", "s", "p", "a", "n", ">", "<", "c", "o", "d", "e", ">", "<", "s", "p",
    "a", "n", " ", "c", "l", "a", "s", "s", "=", QUOTE, "n", "b", QUOTE, ">", "p", "r", "i",
    "n", "t", "<", "/", "s", "p", "a", "n", ">", "<", "s", "p", "a", "n", " ", "c", "l",
    "a", "s", "s", "=", QUOTE, "p", QUOTE, ">", "(", "<", "/", "s", "p", "a", "n", ">", "<",
    "s", "p", "a", "n", " ", "c", "l", "a", "s", "s", "=", QUOTE, "m", "i", QUOTE, ">", "1",
    "<", "/", "s", "p", "a", "n", ">", "<", "s", "p", "a", "n", " ", "c", "l", "a", "s",
    "s", "=", QUOTE, "p", QUOTE, ">", ")", "<", "/", "s", "p", "a", "n", ">", "\n", "<",
    "/", "c", "o", "d", "e", ">", "<", "/", "p", "r", "e", ">", "<", "/", "d", "i", "v",
    ">">>

\* <pre class="codehilite"><code class="language-python">print(1)\n</code></pre>
HtmlPyFencePlain ==
    <<"<", "p", "r", "e", " ", "c", "l", "a", "s", "s", "=", QUOTE, "c", "o", "d", "e", "h",
    "i", "l", "i", "t", "e", QUOTE, ">", "<", "c", "o", "d", "e", " ", "c", "l", "a", "s",
    "s", "=", QUOTE, "l", "a", "n", "g", "u", "a", "g", "e", "-", "p", "y", "t", "h", "o",
    "n", QUOTE, ">", "p", "r", "i", "n", "t", "(", "1", ")", "\n", "<", "/", "c", "o", "d",
    "e", ">", "<", "/", "p", "r", "e", ">">>

\* Write a function to reverse a string
TitleReverse ==
    <<"W", "r", "i", "t", "e", " ", "a", " ", "f", "u", "n", "c", "t", "i", "o", "n", " ",
    "t", "o", " ", "r", "e", "v", "e", "r", "s", "e", " ", "a", " ", "s", "t", "r", "i",
    "n", "g">>

\* Implement a queue data structure
TitleQueue ==
    <<"I", "m", "p", "l", "e", "m", "e", "n", "t", " ", "a", " ", "q", "u", "e", "u", "e",
    " ", "d", "a", "t", "a", " ", "s", "t", "r", "u", "c", "t", "u", "r", "e">>

MdBlocks == {MdPlain, MdBold, MdInlineFence, MdPyFence}

\* a block is a Python-tagged fenced code block
IsPyFence(block) == StartsWith(block, FENCE_PY \o <<"\n">>)

\* the HTML Python-Markdown gives one block
BlockHtml(block, pyg) ==
    CASE block = MdPlain -> HtmlPlain
      [] block = MdBold -> HtmlBold
      [] block = MdInlineFence -> HtmlInlineFence
      [] block = MdPyFence -> IF pyg THEN HtmlPyFencePygments ELSE HtmlPyFencePlain

\* sep.join(parts)
RECURSIVE Join(_, _)
Join(parts, sep) ==
    IF parts = <<>> THEN <<>>
    ELSE IF Len(parts) = 1 THEN parts[1]
    ELSE parts[1] \o sep \o Join(Tail(parts), sep)

\* md.convert(text_content): the blocks' HTML, one per line; "" for the empty body
md_convert(blocks, pyg) ==
    Join([i \in 1..Len(blocks) |-> BlockHtml(blocks[i], pyg)], <<"\n">>)

(***************************************************************************)
(* create_pdf: the story (the sequence of flowables) it builds             *)
(***************************************************************************)
TitleBlock(text) == [kind |-> "Title", text |-> text]
ParagraphBlock(text) == [kind |-> "Paragraph", text |-> text]
CodeBlock(text) == [kind |-> "Code", text |-> text]
SpacerBlock == [kind |-> "Spacer", text |-> <<>>]

\* re.findall(r'[3 backticks]python(.*?)[3 backticks]', part, re.DOTALL): from each opener, lazily to
\* the nearest closing fence; the scan resumes after that fence
RECURSIVE FindAllCode(_)
FindAllCode(part) ==
    LET k == Find(part, FENCE_PY, 1)
        c == IF k = 0 THEN 0 ELSE Find(part, FENCE, k + Len(FENCE_PY))
    IN IF k = 0 \/ c = 0 THEN <<>>
       ELSE <<SubSeq(part, k + Len(FENCE_PY), c - 1)>>
            \o FindAllCode(SubSeq(part, c + Len(FENCE), Len(part)))

\* the text of the Paragraph built from the fragment p
ParagraphText(p) ==
    LET c1 == Strip(Replace(p, P_OPEN, <<>>))
        c2 == Replace(Replace(c1, STRONG_OPEN, B_OPEN), STRONG_CLOSE, B_CLOSE)
    IN Replace(Replace(c2, EM_OPEN, I_OPEN), EM_CLOSE, I_CLOSE)

\* the else branch: one Paragraph and one Spacer per fragment that is not blank
RECURSIVE ParagraphBlocks(_)
ParagraphBlocks(paragraphs) ==
    IF paragraphs = <<>> THEN <<>>
    ELSE (IF Strip(Head(paragraphs)) # <<>>
          THEN <<ParagraphBlock(ParagraphText(Head(paragraphs))), SpacerBlock>>
          ELSE <<>>)
         \o ParagraphBlocks(Tail(paragraphs))

\* the test the loop makes on each part
IsCodePart(part) == StartsWith(Strip(part), FENCE_PY)

\* the blocks one part of the split adds to the story
PartBlocks(part) ==
    IF IsCodePart(part)
    THEN LET code_blocks == FindAllCode(part)
         IN [i \in 1..Len(code_blocks) |-> CodeBlock(Strip(code_blocks[i]))]
    ELSE ParagraphBlocks(Split(part, P_CLOSE))

RECURSIVE PartsBlocks(_)
PartsBlocks(parts) ==
    IF parts = <<>> THEN <<>>
    ELSE PartBlocks(Head(parts)) \o PartsBlocks(Tail(parts))

\* the story create_pdf builds from the normalized HTML
StoryOf(title, html) ==
    <<TitleBlock(title)>> \o PartsBlocks(Split(html, FENCE_PY))

(***************************************************************************)
(* SpecPdf: create_pdf applied to bounded bodies                           *)
(***************************************************************************)
PdfTitles == {TitleReverse, TitleQueue}
PdfBodies == SeqsUpTo(MdBlocks, MaxBlocks)

InitPdf ==
    /\ AppIdle /\ NormIdle
    /\ pdf_title \in PdfTitles
    /\ pdf_body \in PdfBodies
    /\ pygments \in BOOLEAN
    /\ pdf_pc = "called"
    /\ pdf_html = <<>>
    /\ story = <<>>

create_pdf ==
    /\ pdf_pc = "called"
    /\ LET html == normalize(md_convert(pdf_body, pygments))
       IN /\ pdf_html' = html
          /\ story' = StoryOf(pdf_title, html)
    /\ pdf_pc' = "built"
    /\ UNCHANGED <<pdf_title, pdf_body, pygments, appVars, normVars>>

NextPdf == create_pdf

SpecPdf == InitPdf /\ [][NextPdf]_vars

(***************************************************************************)
(* SpecNorm: normalize applied once and again                              *)
(***************************************************************************)
\* the pieces the bounded HTML inputs are built from
NormTokens == {Opener(DIV), Opener(SPAN), <<"x">>, <<QUOTE, ">">>}
NormInputs == {Flatten(ts) : ts \in SeqsUpTo(NormTokens, MaxTokens)}

InitNorm ==
    /\ AppIdle /\ PdfIdle
    /\ norm_x \in NormInputs
    /\ norm_once = <<>> /\ norm_twice = <<>>
    /\ norm_pc = "input"

NormalizeOnce ==
    /\ norm_pc = "input"
    /\ norm_once' = normalize(norm_x)
    /\ norm_pc' = "once"
    /\ UNCHANGED <<norm_x, norm_twice, appVars, pdfVars>>

NormalizeAgain ==
    /\ norm_pc = "once"
    /\ norm_twice' = normalize(norm_once)
    /\ norm_pc' = "twice"
    /\ UNCHANGED <<norm_x, norm_once, appVars, pdfVars>>

NextNorm == NormalizeOnce \/ NormalizeAgain

SpecNorm == InitNorm /\ [][NextNorm]_vars

(***************************************************************************)
(* Spec: the script runs of the app                                        *)
(*                                                                         *)
(* Streamlit runs the script from its first line to its last on page load  *)
(* and again on every interaction (a widget changed, a button pressed).    *)
(* The only place a run waits is the for loop over the streamed chunks.    *)
(***************************************************************************)
\* programming_tasks (its first entries) and the values typed as details
Tasks == {"Write a function to reverse a string",
          "Create a class to represent a bank account"}
DefaultTask == "Write a function to reverse a string"
Details == {"", "use arrays"}

\* the history given to model.start_chat
Persona ==
    <<[role |-> "user", parts |-> "You are a programming assistant ..."],
      [role |-> "model", parts |-> "Understood. Let me help you with that."]>>

\* the texts a chunk may carry
ChunkTexts == {<<>>, <<"H", "e", "l">>, <<"l", "o">>}

\* What iterating the completion may yield: a chunk with a text, a chunk whose text
\* is None and that holds no 'error', a chunk whose text is None and that holds an
\* 'error', or an exception raised by the call or by the iteration.
TextChunk(t) == [kind |-> "text", text |-> t]
NoneChunk == [kind |-> "none", text |-> <<>>]
ErrorChunk == [kind |-> "error", text |-> <<>>]
Fault == [kind |-> "fault", text |-> <<>>]

\* the completion may deliver one more item (the bound on a stream's length)
MoreToCome == Len(sent) < MaxChunks

\* a value returned by generate_ai_response: a string, or None
Str(t) == [none |-> FALSE, text |-> t]
None == [none |-> TRUE, text |-> <<>>]

\* Python's truth value of such a value
Truthy(r) == ~r.none /\ r.text # <<>>

\* the empty prompt slot of a run that composed none
NoPrompt == <<>>

\* f"Programming Task: {selected_task}\nDetails: {task_details}", as its pieces
ComposePrompt(task, details) == <<"Programming Task: ", task, "\nDetails: ", details>>

Banner(kind, msg) == [kind |-> kind, msg |-> msg]
KeyMissingBanner == Banner("error", "GEMINI_API_KEY environment variable not found.")
DetailsWarning == Banner("warning", "Please provide details about the task.")
ChunkErrorBanner == Banner("error", "Error occurred: ...")
ExceptionBanner == Banner("error", "An error occurred: ...")
SuccessBanner == Banner("success", "Response generated successfully.")
NoDataWarning == Banner("warning", "No data was passed to generate a PDF.")

\* the banners of the script's first lines: the key check
StartupBanners(key) == IF key = "absent" THEN <<KeyMissingBanner>> ELSE <<>>

\* the chat the script's first lines create, whatever the key check found
StartChat == Persona

\* the test written as "task_details is None", which the text area's empty string
\* never passes
DetailsMissing_IsNone(details) == FALSE

\* not task_details
DetailsMissing(details) == details = ""

\* the accumulation written as "model_response = chunk.text"
Accumulate_Overwrite(acc, text) == text

\* model_response += chunk.text
Accumulate(acc, text) == acc \o text

\* the transcript after the stream was consumed to its end
RecordExchange(h, p, reply) ==
    h \o <<[role |-> "user", parts |-> p], [role |-> "model", parts |-> reply]>>

InitApp ==
    /\ PdfIdle /\ NormIdle
    /\ api_key \in {"absent", "present"}
    /\ history = StartChat
    /\ selected_task = DefaultTask
    /\ task_details = ""
    /\ pressed = FALSE
    /\ pc = "idle"
    /\ prompt = NoPrompt
    /\ send_calls = 0
    /\ sent = <<>>
    /\ model_response = <<>>
    /\ writes = <<>>
    /\ response = None
    /\ banners = StartupBanners(api_key)
    /\ pdf_calls = <<>>
    /\ download = FALSE

\* A script run in which the button was not pressed: the page is drawn again from
\* the first line, with the widgets' new values.
RunWithoutButton(task, details) ==
    /\ pc = "idle"
    /\ history' = StartChat
    /\ selected_task' = task
    /\ task_details' = details
    /\ pressed' = FALSE
    /\ prompt' = NoPrompt
    /\ send_calls' = 0
    /\ sent' = <<>>
    /\ model_response' = <<>>
    /\ writes' = <<>>
    /\ response' = None
    /\ banners' = StartupBanners(api_key)
    /\ pdf_calls' = <<>>
    /\ download' = FALSE
    /\ pc' = "idle"
    /\ UNCHANGED <<api_key, pdfVars, normVars>>

\* the user picks another task in the selectbox
SelectTask ==
    \E t \in Tasks \ {selected_task} : RunWithoutButton(t, task_details)

\* the user changes the text area
EditDetails ==
    \E d \in Details \ {task_details} : RunWithoutButton(selected_task, d)

\* The user presses "Get Response": the script runs from its first line, and the
\* button's branch runs up to the chat call, whose stream is yet to arrive.
PressGetResponse ==
    /\ pc = "idle"
    /\ history' = StartChat
    /\ pressed' = TRUE
    /\ model_response' = <<>>
    /\ writes' = <<>>
    /\ response' = None
    /\ pdf_calls' = <<>>
    /\ download' = FALSE
    /\ IF DetailsMissing(task_details)
       THEN /\ banners' = StartupBanners(api_key) \o <<DetailsWarning>>
            /\ prompt' = NoPrompt
            /\ send_calls' = 0
            /\ sent' = <<>>
            /\ pc' = "idle"
       ELSE /\ banners' = StartupBanners(api_key)
            /\ prompt' = ComposePrompt(selected_task, task_details)
            /\ send_calls' = 1
            /\ sent' = <<>>
            /\ pc' = "streaming"
    /\ UNCHANGED <<api_key, selected_task, task_details, pdfVars, normVars>>

\* The rest of the button's branch once generate_ai_response returned r, after the
\* banners bs: the success banner, then the PDF and its download button, or the
\* warning.
Finish(r, bs) ==
    /\ response' = r
    /\ banners' = bs \o <<SuccessBanner>> \o (IF Truthy(r) THEN <<>> ELSE <<NoDataWarning>>)
    /\ pdf_calls' = IF Truthy(r) THEN <<[title |-> selected_task, text |-> r.text]>>
                    ELSE <<>>
    /\ download' = Truthy(r)
    /\ pc' = "idle"

\* the loop takes a chunk whose text is not None
ChunkText ==
    /\ pc = "streaming" /\ MoreToCome
    /\ \E t \in ChunkTexts :
           /\ sent' = Append(sent, TextChunk(t))
           /\ model_response' = Accumulate(model_response, t)
    /\ writes' = Append(writes, model_response')
    /\ UNCHANGED <<api_key, history, selected_task, task_details, pressed, pc, prompt,
                   send_calls, response, banners, pdf_calls, download,
                   pdfVars, normVars>>

\* the loop takes a chunk whose text is None and that holds no 'error'
ChunkSkipped ==
    /\ pc = "streaming" /\ MoreToCome
    /\ sent' = Append(sent, NoneChunk)
    /\ UNCHANGED <<api_key, history, selected_task, task_details, pressed, pc, prompt,
                   send_calls, model_response, writes, response, banners,
                   pdf_calls, download, pdfVars, normVars>>

\* the loop takes a chunk that holds an 'error': the banner, break, return
ChunkError ==
    /\ pc = "streaming" /\ MoreToCome
    /\ sent' = Append(sent, ErrorChunk)
    /\ Finish(Str(model_response), Append(banners, ChunkErrorBanner))
    /\ UNCHANGED <<api_key, history, selected_task, task_details, pressed, prompt,
                   send_calls, model_response, writes, pdfVars, normVars>>

\* the call or the iteration raises: the except branch returns None
StreamRaises ==
    /\ pc = "streaming" /\ MoreToCome
    /\ sent' = Append(sent, Fault)
    /\ Finish(None, Append(banners, ExceptionBanner))
    /\ UNCHANGED <<api_key, history, selected_task, task_details, pressed, prompt,
                   send_calls, model_response, writes, pdfVars, normVars>>

\* the stream ends: the session records the exchange, the function returns
StreamEnd ==
    /\ pc = "streaming"
    /\ history' = RecordExchange(history, prompt, model_response)
    /\ Finish(Str(model_response), banners)
    /\ UNCHANGED <<api_key, selected_task, task_details, pressed, prompt, send_calls,
                   sent, model_response, writes, pdfVars, normVars>>

Next ==
    \/ SelectTask
    \/ EditDetails
    \/ PressGetResponse
    \/ ChunkText
    \/ ChunkSkipped
    \/ ChunkError
    \/ StreamRaises
    \/ StreamEnd

Spec == InitApp /\ [][Next]_vars

(***************************************************************************)
(* Claims about generate_ai_response and the "Get Response" handler (Spec) *)
(***************************************************************************)
\* the script run pressed the button, called the chat and has ended
Returned == pc = "idle" /\ pressed /\ send_calls = 1

\* the chunks the loop has taken so far
Consumed == sent

\* no item of the stream is an error chunk or a raised exception
NoFailure(items) == \A i \in 1..Len(items) : items[i].kind \notin {"error", "fault"}

\* the call failed: the last item taken was an error chunk or a raised exception
Failed == Consumed # <<>> /\ Consumed[Len(Consumed)].kind \in {"error", "fault"}

\* the chunk texts of the items, concatenated in arrival order
RECURSIVE ConcatTexts(_)
ConcatTexts(items) ==
    IF items = <<>> THEN <<>>
    ELSE (IF Head(items).kind = "text" THEN Head(items).text ELSE <<>>)
         \o ConcatTexts(Tail(items))

\* The cumulative text after each chunk that shows: the chunks with a text that is
\* not None, or only those with a non-empty text.
RECURSIVE Cumulative(_, _, _)
Cumulative(items, acc, nonEmptyOnly) ==
    IF items = <<>> THEN <<>>
    ELSE LET h == Head(items)
             acc2 == IF h.kind = "text" THEN acc \o h.text ELSE acc
             shows == h.kind = "text" /\ (nonEmptyOnly => h.text # <<>>)
         IN (IF shows THEN <<acc2>> ELSE <<>>) \o Cumulative(Tail(items), acc2, nonEmptyOnly)

HasBanner(b) == \E i \in 1..Len(banners) : banners[i] = b

\* C1 (as stated): for a chunk sequence with no error chunk and no fault, the return
\* value is the concatenation of the chunk texts and the display callback runs
\* exactly once per chunk with NON-EMPTY text, with the cumulative text.
C1_CallbackPerNonEmptyChunk ==
    (Returned /\ NoFailure(sent)) =>
        /\ response = Str(ConcatTexts(sent))
        /\ writes = Cumulative(sent, <<>>, TRUE)

\* C1 (amended): for a chunk sequence with no error chunk and no fault, the return
\* value is the concatenation of the chunk texts in arrival order and the display
\* callback runs exactly once per chunk whose text is not None (a chunk with the
\* empty text included), the i-th call carrying the cumulative text up to and
\* including that chunk.
C1_CallbackPerTextChunk ==
    (Returned /\ NoFailure(sent)) =>
        /\ response = Str(ConcatTexts(sent))
        /\ writes = Cumulative(sent, <<>>, FALSE)

\* C1's case: "Hel", an empty text and "lo" were collected: three callbacks
C1_Witness ==
    /\ Returned /\ NoFailure(sent)
    /\ sent = <<TextChunk(<<"H", "e", "l">>), TextChunk(<<>>), TextChunk(<<"l", "o">>)>>
    /\ response = Str(<<"H", "e", "l", "l", "o">>)
    /\ Len(writes) = 3

\* C2: when an error chunk follows one or more text chunks, the collector stops and
\* returns a failure signal: the text accumulated before the error chunk is not
\* the return value.
C2_ErrorChunkDiscardsText ==
    (/\ Returned
     /\ Len(Consumed) > 1
     /\ Consumed[Len(Consumed)].kind = "error"
     /\ \E i \in 1..(Len(Consumed) - 1) : Consumed[i].kind = "text")
    => ~Truthy(response)

\* C3: in every interaction in which the chat call fails (a raised fault or an
\* error chunk at any position) an error banner is shown and no PDF is generated:
\* create_pdf is not called and no download control is offered.
C3_FailureMakesNoPdf ==
    (Returned /\ Failed) =>
        /\ HasBanner(ChunkErrorBanner) \/ HasBanner(ExceptionBanner)
        /\ pdf_calls = <<>>
        /\ ~download

\* C4: when GEMINI_API_KEY is absent, no step of the script run uses the chat
\* session: chat.send_message is never invoked.
C4_MissingKeyBlocksChat == api_key = "absent" => send_calls = 0

\* C5: when "Get Response" is pressed with an empty detail string, a warning is
\* shown and in that interaction no prompt is composed, no chat call is made, no
\* chunk is consumed and no PDF is generated.
C5_EmptyDetailsShortCircuit ==
    (pressed /\ task_details = "") =>
        /\ pc = "idle"
        /\ HasBanner(DetailsWarning)
        /\ prompt = NoPrompt
        /\ send_calls = 0
        /\ sent = <<>> /\ Consumed = <<>> /\ writes = <<>>
        /\ pdf_calls = <<>> /\ ~download
        /\ ~HasBanner(SuccessBanner)

\* C5's case: the button was pressed with empty details and the warning shows
C5_Witness == pressed /\ task_details = "" /\ HasBanner(DetailsWarning)

\* h is a prefix of g
IsPrefix(h, g) == Len(h) <= Len(g) /\ SubSeq(g, 1, Len(h)) = h

\* C9: the ChatSession's transcript is append-only across user interactions: no
\* step removes an earlier entry, so every step leaves the transcript a prefix of
\* the next one.
C9_TranscriptAppendOnly == [][IsPrefix(history, history')]_vars

\* C10: the success banner is shown only if the collection returned a non-empty
\* response: never after an error and never together with the "No data" warning.
C10_SuccessOnlyWithResponse ==
    HasBanner(SuccessBanner) =>
        /\ Truthy(response)
        /\ ~Failed
        /\ ~HasBanner(NoDataWarning)

(***************************************************************************)
(* Claims about create_pdf (SpecPdf)                                       *)
(***************************************************************************)
\* the blocks of the story of one kind
RECURSIVE OfKind(_, _)
OfKind(blocks, kind) ==
    IF blocks = <<>> THEN <<>>
    ELSE (IF Head(blocks).kind = kind THEN <<Head(blocks)>> ELSE <<>>)
         \o OfKind(Tail(blocks), kind)

\* one CodeBlock per Python-tagged fence of the body, in order, holding the trimmed
\* text between the fence markers
RECURSIVE ExpectedCode(_)
ExpectedCode(body) ==
    IF body = <<>> THEN <<>>
    ELSE (IF IsPyFence(Head(body))
          THEN <<CodeBlock(Strip(FindAllCode(Head(body))[1]))>>
          ELSE <<>>)
         \o ExpectedCode(Tail(body))

\* C7: create_pdf emits exactly one CodeBlock per Python-tagged fence of the body,
\* in source order, whose text is the trimmed text between the fence markers; for
\* the body that is the one fence around print(1), the story is the Title block
\* followed by exactly one CodeBlock whose text is print(1).
C7_OneCodeBlockPerFence ==
    pdf_pc = "built" =>
        /\ OfKind(story, "Code") = ExpectedCode(pdf_body)
        /\ pdf_body = <<MdPyFence>> =>
               story = <<TitleBlock(pdf_title),
                         CodeBlock(<<"p", "r", "i", "n", "t", "(", "1", ")">>)>>

\* the body holds no fenced code block
NoFencedCode(body) == \A i \in 1..Len(body) : ~IsPyFence(body[i])

\* C8: for a body with no fenced code block the story is the Title block, first,
\* followed by one Paragraph block (and its spacer) per non-empty paragraph
\* fragment of the HTML, in source order, and nothing else; for the empty body it
\* is the Title block alone.
C8_OneParagraphPerFragment ==
    (pdf_pc = "built" /\ NoFencedCode(pdf_body)) =>
        /\ story = <<TitleBlock(pdf_title)>> \o ParagraphBlocks(Split(pdf_html, P_CLOSE))
        /\ pdf_body = <<>> => story = <<TitleBlock(pdf_title)>>

(***************************************************************************)
(* Claim about the normalizer (SpecNorm)                                   *)
(***************************************************************************)
\* C6: the normalizer is idempotent: normalize(normalize(x)) = normalize(x) for
\* every input x, inputs with a class-attributed tag inside the attribute value of
\* another included.
C6_Idempotent == norm_pc = "twice" => norm_twice = norm_once

====
